---- MODULE Spec2Model ----
(***************************************************************************)
(* A model of src/layoutBuilder.js (LayoutBuilder): the page-break         *)
(* convergence loop, the node traversal, the row/column processor, the     *)
(* line packer and the watermark font-size search.                         *)
(***************************************************************************)
EXTENDS Integers, Sequences, FiniteSets, TLC

VARIABLES
    wm,             \* getSize: the locals a, b, c, size of the binary search
    pageBreaks,     \* processRow: the pageBreaks list storePageBreakData fills
    received,       \* the pageChanged notifications delivered so far (history)
    textNode,       \* buildNextLine: the text leaf, with its _inlines queue
    lines,          \* the lines buildNextLine has returned so far
    originalText,   \* the characters of the leaf's runs before any call (history)
    linePc,         \* "build" while buildNextLine is called again, then "done"
    availableWidth, \* writer.context().availableWidth seen by buildNextLine
    doc,            \* the measured document: node id -> the node's fields
    pageBreak,      \* node.pageBreak of every node ("" when not set)
    pageBreakCalculated,    \* node.pageBreakCalculated of every node
    nodeInfo,       \* node.nodeInfo of every node
    pageBreakBeforeFct,     \* whether the caller supplied a function
    pc,             \* where layoutDocument is
    layout,         \* the writer, the linear node list and the nodes' positions
                    \* after the latest tryLayoutDocument
    scan,           \* addPageBreaksIfNecessary: the filtered list and the index
                    \* linearNodeList.some has reached
    fctCalls,       \* the calls of pageBreakBeforeFct so far (history)
    attempts,       \* the page lists of the calls of tryLayoutDocument (history)
    returned        \* what layoutDocument returned

wmVars   == <<wm>>
rowVars  == <<pageBreaks, received>>
lineVars == <<textNode, lines, originalText, linePc, availableWidth>>
layVars  == <<doc, pageBreak, pageBreakCalculated, nodeInfo, pageBreakBeforeFct, pc,
              layout, scan, fctCalls, attempts, returned>>
vars     == <<wm, pageBreaks, received, textNode, lines, originalText, linePc,
             availableWidth, doc, pageBreak, pageBreakCalculated, nodeInfo,
             pageBreakBeforeFct, pc, layout, scan, fctCalls, attempts, returned>>

Max(x, y) == IF x >= y THEN x ELSE y
Min(x, y) == IF x <= y THEN x ELSE y

(***************************************************************************)
(* Watermark sizer: getSize, the binary search of addWatermark.            *)
(***************************************************************************)

\* Font sizes are kept in units of 1/FixedPoint so that every midpoint
\* (a + b) / 2 of the search is an exact integer.
FixedPoint == 2 ^ 10

\* The probes the model follows before it stops following a search.
MaxProbes == 12

InitialA == 0
InitialB == 1000

\* Page sizes whose diagonal is a whole number (so that the square root and
\* the factor 0.8 are exact).
PageSizes ==
    { [width |-> 300, height |-> 400], [width |-> 600, height |-> 800],
      [width |-> 450, height |-> 600], [width |-> 500, height |-> 1200],
      [width |-> 800, height |-> 1500] }

\* Text advance of the watermark text, in tenths of the font size.
TextEmTenths == {8, 10, 13, 16, 21}

Sqrt(n) == CHOOSE d \in 0..n : d * d = n

\* targetWidth = Math.sqrt(width * width + height * height) * 0.8
TargetWidth(pageSize) ==
    (Sqrt(pageSize.width * pageSize.width + pageSize.height * pageSize.height) * 8) \div 10

\* textTools.sizeOfString(text, styleContextStack).width at font size c
\* (c in fixed point), times 10 * FixedPoint: a monotone function of c.
SizeOfStringWidth(em, c) == em * c

\* targetWidth on the scale of SizeOfStringWidth
ScaledTarget(t) == t * 10 * FixedPoint

Abs(x) == IF x < 0 THEN -x ELSE x

WmInit(pageSize, em) ==
    [ a |-> InitialA * FixedPoint,
      b |-> InitialB * FixedPoint,
      c |-> (InitialA * FixedPoint + InitialB * FixedPoint) \div 2,
      size |-> -1,                  \* var size; (undefined)
      targetWidth |-> TargetWidth(pageSize),
      em |-> em,
      probes |-> 0,
      pc |-> "loop",
      fontSize |-> -1 ]

WmIdle == [ a |-> 0, b |-> 0, c |-> 0, size |-> -1, targetWidth |-> 0, em |-> 0,
            probes |-> 0, pc |-> "idle", fontSize |-> -1 ]

\* while (Math.abs(a - b) > 1)
LoopCondition(w) == Abs(w.a - w.b) > 1 * FixedPoint

\* One iteration of the loop: measure at c, then move b, move a, or neither.
ProbeStep(w) ==
    LET width == SizeOfStringWidth(w.em, w.c)
        target == ScaledTarget(w.targetWidth)
        m == [w EXCEPT !.size = width, !.probes = w.probes + 1]
    IN  IF width > target
        THEN [m EXCEPT !.b = w.c, !.c = (w.a + w.c) \div 2]
        ELSE IF width < target
             THEN [m EXCEPT !.a = w.c, !.c = (w.c + w.b) \div 2]
             ELSE m

GetSizeProbe ==
    /\ wm.pc = "loop"
    /\ LoopCondition(wm)
    /\ wm.probes < MaxProbes
    /\ wm' = ProbeStep(wm)
    /\ UNCHANGED <<rowVars, lineVars, layVars>>

\* return { size: size, fontSize: c };
GetSizeReturn ==
    /\ wm.pc = "loop"
    /\ ~LoopCondition(wm)
    /\ wm' = [wm EXCEPT !.pc = "returned", !.fontSize = wm.c]
    /\ UNCHANGED <<rowVars, lineVars, layVars>>

(***************************************************************************)
(* Row/column processor: storePageBreakData, the pageChanged callback of   *)
(* processRow.                                                             *)
(***************************************************************************)

\* Notifications the model delivers to one row.
MaxNotifications == 3
\* The largest y coordinate a notification carries.
MaxY == 1

PrevPages == {0, 1}

PageChangedData == [prevPage : PrevPages, prevY : 0..MaxY, y : 0..MaxY]

\* The index of the first descriptor with desc.prevPage === data.prevPage, or 0.
FindPageDesc(breaks, data) ==
    IF \E i \in 1..Len(breaks) : breaks[i].prevPage = data.prevPage
    THEN CHOOSE i \in 1..Len(breaks) :
            /\ breaks[i].prevPage = data.prevPage
            /\ \A j \in 1..(i - 1) : breaks[j].prevPage # data.prevPage
    ELSE 0

MergePageDesc(desc, data) ==
    [desc EXCEPT !.prevY = Max(desc.prevY, data.prevY), !.y = Min(desc.y, data.y)]

\* the callback without the lookup: every notification pushes a descriptor
StorePageBreakData_NoMerge(breaks, data) == Append(breaks, data)

StorePageBreakData(breaks, data) ==
    LET i == FindPageDesc(breaks, data)
    IN  IF i = 0
        THEN Append(breaks, MergePageDesc(data, data))
        ELSE [breaks EXCEPT ![i] = MergePageDesc(breaks[i], data)]

PageChanged ==
    /\ Len(received) < MaxNotifications
    /\ \E data \in PageChangedData :
          /\ pageBreaks' = StorePageBreakData(pageBreaks, data)
          /\ received' = Append(received, data)
    /\ UNCHANGED <<wmVars, lineVars, layVars>>

(***************************************************************************)
(* Line packer: buildNextLine, with the Line it fills.                     *)
(***************************************************************************)

\* Runs in the queue of one text leaf.
MaxRuns == 3
\* The widest line the model lays text into.
MaxAvailableWidth == 3

Texts == { <<"i">>, <<"i", "m">>, <<"m", "m", "i">> }

CharWidth(ch) == IF ch = "m" THEN 2 ELSE 1

RECURSIVE WidthOfString(_)
\* textTools.widthOfString(text, font, fontSize, characterSpacing, fontFeatures)
WidthOfString(text) ==
    IF text = <<>> THEN 0 ELSE CharWidth(Head(text)) + WidthOfString(Tail(text))

\* The runs the measurement pass hands over: width is the measured width.
Inlines ==
    { [text |-> t, width |-> WidthOfString(t), noWrap |-> nw, noNewLine |-> nn] :
        t \in Texts, nw \in BOOLEAN, nn \in BOOLEAN }

SeqsUpTo(S, n) == UNION { [1..k -> S] : k \in 0..n }

\* new Line(maxWidth)
NewLine(maxWidth) ==
    [ maxWidth |-> maxWidth, inlines |-> <<>>, inlineWidths |-> 0,
      lastLineInParagraph |-> FALSE, isHardWrap |-> FALSE ]

\* line.getAvailableWidth()
GetAvailableWidth(line) == line.maxWidth - line.inlineWidths

RECURSIVE LookAheadWidth(_)
\* the widths of the runs glued to a noNewLine run: up to and including the
\* first one that is not itself noNewLine
LookAheadWidth(nextInlines) ==
    IF nextInlines = <<>> THEN 0
    ELSE Head(nextInlines).width +
         (IF Head(nextInlines).noNewLine THEN LookAheadWidth(Tail(nextInlines)) ELSE 0)

\* line.hasEnoughSpaceForInline(inline, nextInlines)
HasEnoughSpaceForInline(line, inline, nextInlines) ==
    IF Len(line.inlines) = 0 THEN TRUE
    ELSE LET inlineWidth ==
                 inline.width + (IF inline.noNewLine THEN LookAheadWidth(nextInlines) ELSE 0)
         IN  line.inlineWidths + inlineWidth <= line.maxWidth

\* line.addInline(inline)
AddInline(line, inline) ==
    [line EXCEPT !.inlines = Append(@, inline), !.inlineWidths = @ + inline.width]

\* Math.floor(line.getAvailableWidth() / (inline.width / inline.text.length)),
\* raised to 1
MaxChars(inline, avail) ==
    IF avail <= 0 \/ inline.width = 0 THEN 1
    ELSE Max(1, (avail * Len(inline.text)) \div inline.width)

\* inline.text = inline.text.substr(0, maxChars), re-measured
HardWrapHead(inline, maxChars) ==
    LET t == SubSeq(inline.text, 1, maxChars)
    IN  [inline EXCEPT !.text = t, !.width = WidthOfString(t)]

\* the tail cut one character late
HardWrapTail_DropsChar(inline, maxChars) ==
    LET t == SubSeq(inline.text, maxChars + 2, Len(inline.text))
    IN  [inline EXCEPT !.text = t, !.width = WidthOfString(t)]

\* newInline = cloneInline(inline); newInline.text = inline.text.substr(maxChars)
HardWrapTail(inline, maxChars) ==
    LET t == SubSeq(inline.text, maxChars + 1, Len(inline.text))
    IN  [inline EXCEPT !.text = t, !.width = WidthOfString(t)]

\* no forced continuation at all
ForceContinue_Never(inline, isHardWrap) == FALSE

\* isForceContinue = inline.noNewLine && !isHardWrap
ForceContinue(inline, isHardWrap) == inline.noNewLine /\ ~isHardWrap

RECURSIVE BuildLoop(_, _, _, _)
\* The while loop of buildNextLine; hw is isHardWrap of the last iteration.
BuildLoop(line, inlines, isForceContinue, hw) ==
    IF /\ Len(inlines) > 0
       /\ (HasEnoughSpaceForInline(line, Head(inlines), Tail(inlines)) \/ isForceContinue)
    THEN LET inline == Head(inlines)
             rest == Tail(inlines)
             avail == GetAvailableWidth(line)
             maxChars == MaxChars(inline, avail)
             isHardWrap ==
                 /\ ~inline.noWrap
                 /\ Len(inline.text) > 1
                 /\ inline.width > avail
                 /\ maxChars < Len(inline.text)
             kept == IF isHardWrap THEN HardWrapHead(inline, maxChars) ELSE inline
             queue == IF isHardWrap
                      THEN <<HardWrapTail(inline, maxChars)>> \o rest
                      ELSE rest
         IN  BuildLoop(AddInline(line, kept), queue, ForceContinue(kept, isHardWrap),
                       isHardWrap)
    ELSE [ line |-> [line EXCEPT !.isHardWrap = hw,
                                 !.lastLineInParagraph = (Len(inlines) = 0)],
           inlines |-> inlines ]

\* buildNextLine(textNode) for a non-empty queue: the line and the queue left
BuildNextLineResult(inlines, width) == BuildLoop(NewLine(width), inlines, FALSE, FALSE)

RECURSIVE ConcatTexts(_)
ConcatTexts(inlines) ==
    IF inlines = <<>> THEN <<>> ELSE Head(inlines).text \o ConcatTexts(Tail(inlines))

RECURSIVE LinesText(_)
LinesText(ls) ==
    IF ls = <<>> THEN <<>> ELSE ConcatTexts(Head(ls).inlines) \o LinesText(Tail(ls))

\* One call of buildNextLine by the loop of processLeaf.
BuildNextLine ==
    /\ linePc = "build"
    /\ \/ /\ Len(textNode._inlines) = 0          \* return null
          /\ linePc' = "done"
          /\ UNCHANGED <<textNode, lines>>
       \/ /\ Len(textNode._inlines) > 0
          /\ LET r == BuildNextLineResult(textNode._inlines, availableWidth)
             IN  /\ textNode' = [textNode EXCEPT !._inlines = r.inlines]
                 /\ lines' = Append(lines, r.line)
          /\ UNCHANGED linePc
    /\ UNCHANGED <<originalText, availableWidth, wmVars, rowVars, layVars>>

(***************************************************************************)
(* The page/cursor context and the page writer the traversal writes to     *)
(* (DocumentContext, PageElementWriter): the cursor in whole lines, pages   *)
(* of PageHeight lines, the snapshot stack shared by detached blocks and   *)
(* column groups, and the pageChanged / lineAdded notifications.           *)
(***************************************************************************)

\* Lines that fit on one page.
PageHeight == 2
\* The available width of an empty page.
PageWidth == 2

Has(node, field) == field \in DOMAIN node

At(seq, i) == seq[i + 1]                \* seq[i] with JavaScript's indexes

Ok(st) == st.error = ""

Throw(st, message) == IF Ok(st) THEN [st EXCEPT !.error = message] ELSE st

Log(st, op, n, a, b, c) ==
    [st EXCEPT !.calls = Append(@, [op |-> op, node |-> n, a |-> a, b |-> b, c |-> c])]

NoPosition == [pageNumber |-> 0, top |-> 0, n |-> 0]

NewContext(positions0) ==
    [ page |-> 0, x |-> 0, y |-> 0, availableWidth |-> PageWidth,
      lastColumnWidth |-> 0, endingCell |-> 0, snapshots |-> <<>>,
      pages |-> << <<>> >>, transactionLevel |-> 0,
      linearNodeList |-> <<>>, positions |-> positions0,
      columnEndingContext |-> <<>>, rows |-> <<>>, markers |-> <<>>,
      calls |-> <<>>, emitted |-> 0, position |-> NoPosition, error |-> "" ]

Snapshot(st) ==
    [ x |-> st.x, y |-> st.y, availableWidth |-> st.availableWidth, page |-> st.page,
      bottomMost |-> [page |-> st.page, y |-> st.y],
      endingCell |-> st.endingCell, lastColumnWidth |-> st.lastColumnWidth ]

\* the pageChanged notification reaches the callback of every row in progress
EmitPageChanged(st, data) ==
    [st EXCEPT !.rows = [i \in 1..Len(st.rows) |->
        [st.rows[i] EXCEPT !.pageBreaks = StorePageBreakData(@, data)]]]

\* writer.moveToNextPage(pageOrientation)
MoveToNextPage(st) ==
    IF ~Ok(st) THEN st
    ELSE LET next == st.page + 1
             moved == [st EXCEPT !.page = next, !.y = 0,
                          !.pages = IF next + 1 > Len(st.pages) THEN Append(@, <<>>) ELSE @]
         IN  EmitPageChanged(moved, [prevPage |-> st.page, prevY |-> st.y, y |-> 0])

\* context.moveDown(offset)
MoveDown(st, offset) == IF ~Ok(st) THEN st ELSE [st EXCEPT !.y = @ + offset]

\* context.moveTo(x, y)
MoveTo(st, x, y) == IF ~Ok(st) THEN st ELSE [st EXCEPT !.x = x, !.y = y]

\* context.addMargin(left, right)
AddMargin(st, n, left, right) ==
    IF ~Ok(st) THEN st
    ELSE Log([st EXCEPT !.x = @ + left, !.availableWidth = @ - left - right],
             "addMargin", n, left, right, 0)

\* writer.beginUnbreakableBlock()
BeginUnbreakableBlock(st, n) ==
    IF ~Ok(st) THEN st
    ELSE Log([st EXCEPT !.transactionLevel = @ + 1], "beginUnbreakableBlock", n, 0, 0, 0)

\* writer.commitUnbreakableBlock()
CommitUnbreakableBlock(st, n) ==
    IF ~Ok(st) THEN st
    ELSE Log([st EXCEPT !.transactionLevel = @ - 1], "commitUnbreakableBlock", n, 0, 0, 0)

\* context.beginDetachedBlock()
BeginDetachedBlock(st, n) ==
    IF ~Ok(st) THEN st
    ELSE Log([st EXCEPT !.snapshots = Append(@, Snapshot(st))], "beginDetachedBlock", n, 0, 0, 0)

Restore(st, saved) ==
    [st EXCEPT !.x = saved.x, !.y = saved.y, !.availableWidth = saved.availableWidth,
               !.page = saved.page, !.lastColumnWidth = saved.lastColumnWidth]

\* context.endDetachedBlock()
EndDetachedBlock(st, n) ==
    IF ~Ok(st) THEN st
    ELSE IF st.snapshots = <<>> THEN Throw(st, "TypeError")
    ELSE LET saved == st.snapshots[Len(st.snapshots)]
             popped == [st EXCEPT !.snapshots = SubSeq(@, 1, Len(@) - 1),
                                  !.endingCell = saved.endingCell]
         IN  Log(Restore(popped, saved), "endDetachedBlock", n, 0, 0, 0)

Later(p, q) == IF p.page > q.page \/ (p.page = q.page /\ p.y >= q.y) THEN p ELSE q

\* context.calculateBottomMost(saved): a finished row-span cell leaves its end
\* with its ending cell, any other column pushes the row's bottom down
CalculateBottomMost(st) ==
    LET k == Len(st.snapshots)
    IN  IF st.endingCell # 0
        THEN [st EXCEPT !.columnEndingContext = Append(@,
                            [cell |-> st.endingCell, page |-> st.page, y |-> st.y]),
                        !.endingCell = 0]
        ELSE [st EXCEPT !.snapshots[k].bottomMost =
                            Later([page |-> st.page, y |-> st.y], @)]

\* context.beginColumnGroup()
BeginColumnGroup(st) ==
    IF ~Ok(st) THEN st
    ELSE [st EXCEPT !.snapshots = Append(@, Snapshot(st)), !.lastColumnWidth = 0]

\* context.beginColumn(width, offset, endingCell)
BeginColumn(st, n, width, offset, endingCell) ==
    IF ~Ok(st) THEN st
    ELSE IF st.snapshots = <<>> THEN Throw(st, "TypeError")
    ELSE LET b == CalculateBottomMost(st)
             saved == b.snapshots[Len(b.snapshots)]
         IN  Log([b EXCEPT !.endingCell = endingCell,
                           !.page = saved.page,
                           !.x = b.x + b.lastColumnWidth + offset,
                           !.y = saved.y,
                           !.availableWidth = width,
                           !.lastColumnWidth = width],
                 "beginColumn", n, width, offset, endingCell)

HasEndingContext(st, cell) ==
    \E i \in 1..Len(st.columnEndingContext) : st.columnEndingContext[i].cell = cell

\* context.markEnding(endingCell)
MarkEnding(st, cell) ==
    IF ~Ok(st) THEN st
    ELSE LET i == CHOOSE j \in 1..Len(st.columnEndingContext) :
                     /\ st.columnEndingContext[j].cell = cell
                     /\ \A k \in (j + 1)..Len(st.columnEndingContext) :
                           st.columnEndingContext[k].cell # cell
             saved == st.columnEndingContext[i]
         IN  Log([st EXCEPT !.page = saved.page, !.y = saved.y], "markEnding", cell, 0, 0, 0)

\* context.completeColumnGroup(height)
CompleteColumnGroup(st) ==
    IF ~Ok(st) THEN st
    ELSE IF st.snapshots = <<>> THEN Throw(st, "TypeError")
    ELSE LET b == CalculateBottomMost(st)
             saved == b.snapshots[Len(b.snapshots)]
         IN  [b EXCEPT !.snapshots = SubSeq(@, 1, Len(@) - 1),
                       !.endingCell = saved.endingCell,
                       !.x = saved.x,
                       !.y = saved.bottomMost.y,
                       !.page = saved.bottomMost.page,
                       !.availableWidth = saved.availableWidth,
                       !.lastColumnWidth = saved.lastColumnWidth]

\* the element lands on the current page; the position returned is the
\* cursor's (pageNumber counts from 1)
Place(st, type) ==
    LET pos == [pageNumber |-> st.page + 1, top |-> st.y, n |-> st.emitted + 1]
    IN  [st EXCEPT !.pages[st.page + 1] = Append(@, [type |-> type, top |-> st.y]),
                   !.emitted = @ + 1,
                   !.position = pos]

\* a list whose marker is pending puts it beside the line (addMarkerToFirstLeaf)
AddMarkerToFirstLeaf(st) ==
    LET pending == {i \in 1..Len(st.markers) : st.markers[i]}
        marked == [st EXCEPT !.markers = [i \in 1..Len(st.markers) |-> FALSE]]
    IN  IF pending = {} THEN st
        ELSE [marked EXCEPT !.pages[st.page + 1] =
                               Append(@, [type |-> "marker", top |-> st.y])]

\* an element one line high: on the next page when this one is full (a page
\* is never left while an unbreakable block is open)
Flow(st, type) ==
    LET at == IF st.y + 1 > PageHeight /\ st.transactionLevel = 0
              THEN MoveToNextPage(st) ELSE st
        placed == Place(at, type)
        noted == IF type = "line" THEN AddMarkerToFirstLeaf(placed) ELSE placed
    IN  [noted EXCEPT !.y = @ + 1]

\* writer.addLine(line)
AddLine(st) == IF ~Ok(st) THEN st ELSE Flow(st, "line")
\* writer.addImage(node)
AddImage(st) == IF ~Ok(st) THEN st ELSE Flow(st, "image")
\* writer.addQr(node)
AddQr(st) == IF ~Ok(st) THEN st ELSE Flow(st, "qr")
\* writer.addVector(vector)
AddVector(st) == IF ~Ok(st) THEN st ELSE Place(st, "vector")

\* ColumnCalculator.buildColumnWidths(columns, availableWidth): equal shares
BuildColumnWidths(columns, width) ==
    [i \in 1..Len(columns) |-> [_calcWidth |-> Max(1, width \div Len(columns))]]

(***************************************************************************)
(* The traversal: processNode and the processors it dispatches to.         *)
(***************************************************************************)

\* addAll(target.positions, other.positions)
AddAll(st, target, other) ==
    IF ~Ok(st) THEN st
    ELSE [st EXCEPT !.positions[target] = @ \o st.positions[other]]

\* node.positions.push(position), position the one the writer just returned
PushPosition(st, n) ==
    IF ~Ok(st) THEN st ELSE [st EXCEPT !.positions[n] = Append(@, st.position)]

\* this.linearNodeList.push(node); decorateNode(node): node.positions = []
DecorateNode(st, n) ==
    [st EXCEPT !.linearNodeList = Append(@, n), !.positions[n] = <<>>]

Truthy(node, field) == Has(node, field) /\ node[field] # FALSE

RECURSIVE ProcessNode(_, _)
RECURSIVE StackLoop(_, _, _, _)
RECURSIVE ListLoop(_, _, _, _)
RECURSIVE TableLoop(_, _, _)
RECURSIVE RowLoop(_, _, _, _, _, _, _, _)
RECURSIVE LeafLoop(_, _, _, _, _)
RECURSIVE CanvasLoop(_, _, _)

\* processVerticalContainer: node.stack.forEach(item => ...), from item i on
StackLoop(st, n, items, i) ==
    IF i > Len(items) \/ ~Ok(st) THEN st
    ELSE StackLoop(AddAll(ProcessNode(st, items[i]), n, items[i]), n, items, i + 1)

ProcessVerticalContainer(st, n) == StackLoop(st, n, doc[n].stack, 1)

\* this.tracker.auto('lineAdded', addMarkerToFirstLeaf, ...): the callback is
\* registered for the time of the loop
StartTracking(st) == IF ~Ok(st) THEN st ELSE [st EXCEPT !.markers = Append(@, FALSE)]
StopTracking(st) == IF ~Ok(st) THEN st ELSE [st EXCEPT !.markers = SubSeq(@, 1, Len(@) - 1)]

\* nextMarker = item.listMarker
NextMarker(st, item) ==
    [st EXCEPT !.markers[Len(st.markers)] = Has(doc[item], "listMarker")]

\* processList: items.forEach(item => ...), from item i on
ListLoop(st, n, items, i) ==
    IF i > Len(items) \/ ~Ok(st) THEN st
    ELSE ListLoop(AddAll(ProcessNode(NextMarker(st, items[i]), items[i]), n, items[i]),
                  n, items, i + 1)

ProcessList(st, orderedList, n) ==
    AddMargin(
        StopTracking(
            ListLoop(StartTracking(AddMargin(st, n, doc[n]._gapSize.width, 0)), n,
                     IF orderedList THEN doc[n].ol ELSE doc[n].ul, 1)),
        n, -doc[n]._gapSize.width, 0)

\* colLeftOffset(i)
ColLeftOffset(gaps, i) == IF Len(gaps) > i THEN At(gaps, i) ELSE 0

RECURSIVE SpannedWidth(_, _, _, _)
\* the colSpan loop: width += widths[++i]._calcWidth + gaps[i], for the
\* columns first..last
SpannedWidth(widths, gaps, first, last) ==
    IF first > last THEN 0
    ELSE At(widths, first)._calcWidth + At(gaps, first)
            + SpannedWidth(widths, gaps, first + 1, last)

\* `Row span for column ${columnIndex} (with indexes starting from 0) exceeded row count`
RowSpanError == "Row span exceeded row count"

\* if (endingRow >= tableBody.length): the row span leaves the table
ExceedsRowCount(endingRow, tableBody) == endingRow >= Len(tableBody)

\* getEndingCell(column, columnIndex): the cell, 0 for null or undefined, or
\* the error thrown
GetEndingCell(column, columnIndex, tableBody, tableRow) ==
    IF Has(doc[column], "rowSpan") /\ doc[column].rowSpan > 1
    THEN LET endingRow == tableRow + doc[column].rowSpan - 1
         IN  IF ExceedsRowCount(endingRow, tableBody)
             THEN [threw |-> TRUE, cell |-> 0, columnIndex |-> columnIndex]
             ELSE [threw |-> FALSE,
                   cell |-> IF columnIndex < Len(At(tableBody, endingRow))
                            THEN At(At(tableBody, endingRow), columnIndex) ELSE 0,
                   columnIndex |-> columnIndex]
    ELSE [threw |-> FALSE, cell |-> 0, columnIndex |-> columnIndex]

\* addAll(positions, column.positions), positions the row's result
AddRowPositions(st, column) ==
    IF ~Ok(st) THEN st
    ELSE [st EXCEPT !.rows[Len(st.rows)].positions = @ \o st.positions[column]]

\* if (!column._span) { processNode(column); addAll(...) }
\* else if (column._columnEndingContext) { markEnding(column) }
LayColumn(st, column) ==
    IF ~Truthy(doc[column], "_span")
    THEN AddRowPositions(ProcessNode(st, column), column)
    ELSE IF HasEndingContext(st, column) THEN MarkEnding(st, column) ELSE st

\* the index the for loop of processRow holds when it calls getEndingCell
\* for the cell it took at index i: the colSpan loop has advanced it (++i)
IndexAfterColSpan(i, colSpan) == i + colSpan - 1

\* the for loop of processRow, from column index i on
RowLoop(st, columns, widths, gaps, tableBody, tableRow, isTable, i) ==
    IF i >= Len(columns) \/ ~Ok(st) THEN st
    ELSE LET column == At(columns, i)
             leftOffset == ColLeftOffset(gaps, i)
             colSpan == IF Has(doc[column], "colSpan") /\ doc[column].colSpan > 1
                        THEN doc[column].colSpan ELSE 1
             last == IndexAfterColSpan(i, colSpan)
         IN  IF last >= Len(widths) \/ (colSpan > 1 /\ last >= Len(gaps))
                \/ (~isTable /\ Has(doc[column], "rowSpan") /\ doc[column].rowSpan > 1)
             THEN Throw(st, "TypeError")
             ELSE LET width == At(widths, i)._calcWidth
                                  + SpannedWidth(widths, gaps, i + 1, last)
                      ending == GetEndingCell(column, last, tableBody, tableRow)
                  IN  IF ending.threw
                      THEN Throw(Log(st, "throw", column, ending.columnIndex, 0, 0),
                                 RowSpanError)
                      ELSE RowLoop(LayColumn(BeginColumn(st, column, width, leftOffset,
                                                         ending.cell), column),
                                   columns, widths, gaps, tableBody, tableRow,
                                   isTable, last + 1)

\* processRow(columns, widths, gaps, tableBody, tableRow, height): its result
\* { pageBreaks, positions } is left on top of st.rows
ProcessRow(st, columns, widths, gaps, tableBody, tableRow, isTable) ==
    IF ~Ok(st) THEN st
    ELSE LET tracked == [st EXCEPT !.rows = Append(@, [pageBreaks |-> <<>>,
                                                       positions |-> <<>>])]
             grouped == BeginColumnGroup(tracked)
             looped == RowLoop(grouped, columns, widths, gaps, tableBody, tableRow,
                               isTable, 0)
         IN  CompleteColumnGroup(looped)

\* the caller takes result.positions and the tracker drops the row's callback
TakeRowResult(st, n) ==
    IF ~Ok(st) THEN st
    ELSE LET result == st.rows[Len(st.rows)]
         IN  [st EXCEPT !.positions[n] = @ \o result.positions,
                        !.rows = SubSeq(@, 1, Len(@) - 1)]

\* gapArray(gap)
GapArray(columns, gap) ==
    IF gap = 0 THEN <<>> ELSE [i \in 1..Len(columns) |-> IF i = 1 THEN 0 ELSE gap]

ProcessColumns(st, n) ==
    LET columns == doc[n].columns
        gaps == GapArray(columns, doc[n]._gap)
        width == IF gaps # <<>>
                 THEN st.availableWidth - (Len(gaps) - 1) * doc[n]._gap
                 ELSE st.availableWidth
        widths == BuildColumnWidths(columns, width)
    IN  TakeRowResult(ProcessRow(st, columns, widths, gaps, <<>>, 0, FALSE), n)

\* processor.endRow(i, this.writer, result.pageBreaks)
EndRow(st, n, i) ==
    IF ~Ok(st) THEN st
    ELSE Log(st, "endRow", n, i, st.rows[Len(st.rows)].pageBreaks, 0)

\* processTable: the loop over tableNode.table.body, from row i on
TableLoop(st, n, i) ==
    IF i >= Len(doc[n].table.body) \/ ~Ok(st) THEN st
    ELSE TableLoop(
            TakeRowResult(
                EndRow(ProcessRow(st, At(doc[n].table.body, i), doc[n].table.widths,
                                  doc[n]._offsets.offsets, doc[n].table.body, i, TRUE),
                       n, i),
                n),
            n, i + 1)

ProcessTable(st, n) == TableLoop(st, n, 0)

\* the while loop of processLeaf: hasLine says whether buildNextLine returned
\* a line, queue is node._inlines after that call
LeafLoop(st, n, queue, hasLine, currentHeight) ==
    LET maxHeight == IF Has(doc[n], "maxHeight") /\ doc[n].maxHeight # 0
                     THEN doc[n].maxHeight ELSE -1
    IN  IF Ok(st) /\ hasLine /\ (maxHeight = -1 \/ currentHeight < maxHeight)
        THEN LET added == PushPosition(AddLine(st), n)
             IN  IF Len(queue) = 0
                 THEN added
                 ELSE LeafLoop(added, n,
                               BuildNextLineResult(queue, added.availableWidth).inlines,
                               TRUE, currentHeight + 1)
        ELSE st

ProcessLeaf(st, n) ==
    LET queue == doc[n]._inlines
    IN  IF Len(queue) = 0
        THEN st
        ELSE LeafLoop(st, n, BuildNextLineResult(queue, st.availableWidth).inlines, TRUE, 1)

\* processToc
ProcessToc(st, n) ==
    LET titled == IF Has(doc[n].toc, "title") THEN ProcessNode(st, doc[n].toc.title) ELSE st
    IN  ProcessNode(titled, doc[n].toc._table)

\* processImage
ProcessImage(st, n) == PushPosition(AddImage(st), n)

\* processQr
ProcessQr(st, n) == PushPosition(AddQr(st), n)

\* node.canvas.forEach(vector => ...), from vector i on
CanvasLoop(st, n, i) ==
    IF i > Len(doc[n].canvas) \/ ~Ok(st) THEN st
    ELSE CanvasLoop(PushPosition(AddVector(st), n), n, i + 1)

\* processCanvas
ProcessCanvas(st, n) ==
    LET height == doc[n]._minHeight
        at == IF ~Has(doc[n], "absolutePosition") /\ PageHeight - st.y < height
              THEN MoveToNextPage(st) ELSE st
    IN  MoveDown(CanvasLoop(at, n, 1), height)

\* the dispatch on the node's kind
Dispatch(st, n) ==
    LET node == doc[n]
    IN  IF ~Ok(st) THEN st
        ELSE IF Has(node, "stack") THEN ProcessVerticalContainer(st, n)
        ELSE IF Has(node, "columns") THEN ProcessColumns(st, n)
        ELSE IF Has(node, "ul") THEN ProcessList(st, FALSE, n)
        ELSE IF Has(node, "ol") THEN ProcessList(st, TRUE, n)
        ELSE IF Has(node, "table") THEN ProcessTable(st, n)
        ELSE IF Has(node, "text") THEN ProcessLeaf(st, n)
        ELSE IF Has(node, "toc") THEN ProcessToc(st, n)
        ELSE IF Has(node, "image") THEN ProcessImage(st, n)
        ELSE IF Has(node, "canvas") THEN ProcessCanvas(st, n)
        ELSE IF Has(node, "qr") THEN ProcessQr(st, n)
        ELSE IF ~Truthy(node, "_span") THEN Throw(st, "Unrecognized document structure")
        ELSE st

\* if (unbreakable) self.writer.beginUnbreakableBlock()
OpenUnbreakable(st, n) ==
    IF Truthy(doc[n], "unbreakable") THEN BeginUnbreakableBlock(st, n) ELSE st

\* if (absPosition) { beginDetachedBlock(); moveTo(absPosition.x, absPosition.y) }
OpenAbsolute(st, n) ==
    IF Has(doc[n], "absolutePosition")
    THEN MoveTo(BeginDetachedBlock(st, n),
                doc[n].absolutePosition.x, doc[n].absolutePosition.y)
    ELSE st

\* the cursor moved by relPosition from where it stands
MoveBy(st, by) == MoveTo(st, by.x + st.x, by.y + st.y)

\* if (relPosition) { beginDetachedBlock(); moveTo(relPosition.x + x, relPosition.y + y) }
OpenRelative(st, n) ==
    IF Has(doc[n], "relativePosition")
    THEN MoveBy(BeginDetachedBlock(st, n), doc[n].relativePosition)
    ELSE st

\* if (absPosition || relPosition) self.writer.context().endDetachedBlock()
CloseDetached(st, n) ==
    IF Has(doc[n], "absolutePosition") \/ Has(doc[n], "relativePosition")
    THEN EndDetachedBlock(st, n)
    ELSE st

\* if (unbreakable) self.writer.commitUnbreakableBlock()
CloseUnbreakable(st, n) ==
    IF Truthy(doc[n], "unbreakable") THEN CommitUnbreakableBlock(st, n) ELSE st

\* the callback processNode hands to applyMargins
Callback(st, n) ==
    CloseUnbreakable(
        CloseDetached(
            Dispatch(OpenRelative(OpenAbsolute(OpenUnbreakable(st, n), n), n), n), n), n)

\* if (node.pageBreak === 'before') self.writer.moveToNextPage(...)
PageBreakBefore(st, n) == IF pageBreak[n] = "before" THEN MoveToNextPage(st) ELSE st

\* if (margin) { moveDown(margin[1]); addMargin(margin[0], margin[2]) }
OpenMargin(st, n) ==
    IF Has(doc[n], "_margin")
    THEN AddMargin(MoveDown(st, At(doc[n]._margin, 1)), n,
                   At(doc[n]._margin, 0), At(doc[n]._margin, 2))
    ELSE st

\* if (margin) { addMargin(-margin[0], -margin[2]); moveDown(margin[3]) }
CloseMargin(st, n) ==
    IF Has(doc[n], "_margin")
    THEN MoveDown(AddMargin(st, n, -At(doc[n]._margin, 0), -At(doc[n]._margin, 2)),
                  At(doc[n]._margin, 3))
    ELSE st

\* if (node.pageBreak === 'after') self.writer.moveToNextPage(...)
PageBreakAfter(st, n) == IF pageBreak[n] = "after" THEN MoveToNextPage(st) ELSE st

\* applyMargins(callback)
ApplyMargins(st, n) ==
    PageBreakAfter(CloseMargin(Callback(OpenMargin(PageBreakBefore(st, n), n), n), n), n)

\* processNode(node)
ProcessNode(st, n) ==
    IF ~Ok(st) THEN st ELSE ApplyMargins(DecorateNode(st, n), n)

(***************************************************************************)
(* layoutDocument: tryLayoutDocument, addPageBreaksIfNecessary and the     *)
(* loop around them.                                                       *)
(***************************************************************************)

DocStructure == 1                       \* the root node

Nodes == DOMAIN doc

RECURSIVE Uniq(_)
\* array.filter((element, position, array) => array.indexOf(element) === position)
Uniq(seq) ==
    IF seq = <<>> THEN <<>>
    ELSE LET init == Uniq(SubSeq(seq, 1, Len(seq) - 1))
             last == seq[Len(seq)]
         IN  IF \E i \in 1..Len(init) : init[i] = last THEN init ELSE Append(init, last)

Includes(seq, x) == \E i \in 1..Len(seq) : seq[i] = x

\* linearNodeList.filter(node => node.positions.length > 0)
FilterWithPositions(linearNodeList, positions) ==
    SelectSeq(linearNodeList, LAMBDA n : Len(positions[n]) > 0)

\* the nodeInfo built for a node of the filtered list
NodeInfo(n, positions, pages) ==
    [ node |-> n,
      pageBreak |-> pageBreak[n],
      startPosition |-> positions[n][1],
      pageNumbers |-> Uniq([i \in 1..Len(positions[n]) |-> positions[n][i].pageNumber]),
      pages |-> Len(pages),
      stack |-> Has(doc[n], "stack") ]

NoNodeInfo ==
    [ node |-> 0, pageBreak |-> "", startPosition |-> NoPosition, pageNumbers |-> <<>>,
      pages |-> 0, stack |-> FALSE ]

\* the slice taken from the node itself on
FollowingNodesOnPage_FromNode(list, index, pageNumber, info) ==
    SelectSeq(SubSeq(list, index + 1, Len(list)),
              LAMBDA m : Includes(info[m].pageNumbers, pageNumber))

\* followingNodeList.slice(index + 1).filter(node0 => ...includes(pageNumber))
FollowingNodesOnPage(list, index, pageNumber, info) ==
    SelectSeq(SubSeq(list, index + 2, Len(list)),
              LAMBDA m : Includes(info[m].pageNumbers, pageNumber))

\* followingNodeList.slice(index + 1).filter(node0 => ...includes(pageNumber + 1))
NodesOnNextPage(list, index, pageNumber, info) ==
    SelectSeq(SubSeq(list, index + 2, Len(list)),
              LAMBDA m : Includes(info[m].pageNumbers, pageNumber + 1))

\* followingNodeList.slice(0, index).filter(node0 => ...includes(pageNumber))
PreviousNodesOnPage(list, index, pageNumber, info) ==
    SelectSeq(SubSeq(list, 1, index),
              LAMBDA m : Includes(info[m].pageNumbers, pageNumber))

\* the pages of the first attempt
ResultPages_First == attempts[1]

\* what layoutDocument hands back: result.pages of the latest attempt
ResultPages == layout.pages

\* tryLayoutDocument: a fresh writer, then processNode(docStructure). No
\* background, header, footer or watermark is given.
TryLayoutDocument ==
    /\ pc = "tryLayoutDocument"
    /\ LET st == ProcessNode(NewContext(layout.positions), DocStructure)
       IN  /\ layout' = st
           /\ attempts' = Append(attempts, st.pages)
           /\ pc' = IF Ok(st) THEN "addPageBreaksIfNecessary" ELSE "threw"
    /\ UNCHANGED <<doc, pageBreak, pageBreakCalculated, nodeInfo, pageBreakBeforeFct,
                   scan, fctCalls, returned, wmVars, rowVars, lineVars>>

\* return result.pages
Return ==
    /\ pc' = "done"
    /\ returned' = ResultPages

\* addPageBreaksIfNecessary up to linearNodeList.some: without a function it
\* returns false; otherwise the list is filtered and every node of it gets
\* its nodeInfo
AddPageBreaksIfNecessary ==
    /\ pc = "addPageBreaksIfNecessary"
    /\ IF ~pageBreakBeforeFct
       THEN /\ Return
            /\ UNCHANGED <<scan, nodeInfo>>
       ELSE LET list == FilterWithPositions(layout.linearNodeList, layout.positions)
            IN  /\ scan' = [list |-> list, index |-> 0]
                /\ nodeInfo' = [n \in Nodes |->
                                   IF Includes(list, n)
                                   THEN NodeInfo(n, layout.positions, layout.pages)
                                   ELSE nodeInfo[n]]
                /\ pc' = "some"
                /\ UNCHANGED returned
    /\ UNCHANGED <<doc, pageBreak, pageBreakCalculated, pageBreakBeforeFct, layout,
                   fctCalls, attempts, wmVars, rowVars, lineVars>>

\* the test without the pageBreakCalculated mark
NeedsEvaluation_Unmarked(n) == pageBreak[n] # "before"

\* node.pageBreak !== 'before' && !node.pageBreakCalculated
NeedsEvaluation(n) == pageBreak[n] # "before" /\ ~pageBreakCalculated[n]

\* the arguments of one call of pageBreakBeforeFct, as node ids
FctArguments(list, index) ==
    LET n == At(list, index)
        pageNumber == nodeInfo[n].pageNumbers[1]
    IN  [ node |-> n,
          followingNodesOnPage |-> FollowingNodesOnPage(list, index, pageNumber, nodeInfo),
          nodesOnNextPage |-> NodesOnNextPage(list, index, pageNumber, nodeInfo),
          previousNodesOnPage |-> PreviousNodesOnPage(list, index, pageNumber, nodeInfo) ]

\* what the call is recorded with: its arguments, its answer, and the
\* attempt and node list it was made for
FctCall(list, index, answer) ==
    [ args |-> FctArguments(list, index), answer |-> answer,
      attempt |-> Len(attempts), visited |-> layout.linearNodeList,
      positions |-> layout.positions ]

\* One call of the callback of linearNodeList.some, for the node at
\* scan.index: a node that needs no evaluation is passed over; another is
\* marked pageBreakCalculated and the function is asked; on true the node
\* gets pageBreak = 'before', some returns true and the loop of
\* layoutDocument resets the coordinates and lays the document out again.
SomeCallback ==
    /\ pc = "some"
    /\ scan.index < Len(scan.list)
    /\ LET n == At(scan.list, scan.index)
       IN  \/ /\ ~NeedsEvaluation(n)
              /\ scan' = [scan EXCEPT !.index = @ + 1]
              /\ UNCHANGED <<pageBreak, pageBreakCalculated, fctCalls, pc>>
           \/ /\ NeedsEvaluation(n)
              /\ pageBreakCalculated' = [pageBreakCalculated EXCEPT ![n] = TRUE]
              /\ \E answer \in BOOLEAN :
                    /\ fctCalls' = Append(fctCalls, FctCall(scan.list, scan.index, answer))
                    /\ IF answer
                       THEN /\ pageBreak' = [pageBreak EXCEPT ![n] = "before"]
                            /\ pc' = "tryLayoutDocument"
                            /\ UNCHANGED scan
                       ELSE /\ scan' = [scan EXCEPT !.index = @ + 1]
                            /\ UNCHANGED <<pageBreak, pc>>
    /\ UNCHANGED <<doc, nodeInfo, pageBreakBeforeFct, layout, attempts, returned,
                   wmVars, rowVars, lineVars>>

\* linearNodeList.some found no node: addPageBreaksIfNecessary returns false
\* and layoutDocument returns
SomeReturnsFalse ==
    /\ pc = "some"
    /\ scan.index >= Len(scan.list)
    /\ Return
    /\ UNCHANGED <<doc, pageBreak, pageBreakCalculated, nodeInfo, pageBreakBeforeFct,
                   layout, scan, fctCalls, attempts, wmVars, rowVars, lineVars>>

(***************************************************************************)
(* Documents                                                               *)
(***************************************************************************)

Run(t) == [text |-> t, width |-> WidthOfString(t), noWrap |-> FALSE, noNewLine |-> FALSE]

\* a text leaf of k runs, each as wide as a line of an empty two-wide page
Text(k) == [text |-> "t", _inlines |-> [i \in 1..k |-> Run(<<"m">>)]]

\* a text leaf of one run that has to be hard-wrapped
LongText == [text |-> "t", _inlines |-> <<Run(<<"m", "m", "i">>)>>]

Marked(node) == node @@ [listMarker |-> "marker"]

Cell == Text(1)

\* a stack of three text leaves of a, b and c lines
ThreeLeaves(a, b, c) ==
    1 :> [stack |-> <<2, 3, 4>>] @@ 2 :> Text(a) @@ 3 :> Text(b) @@ 4 :> Text(c)

\* text, columns of two texts, text
WithColumns(a, b, gap) ==
    1 :> [stack |-> <<2, 3, 6>>] @@ 2 :> Text(1)
      @@ 3 :> [columns |-> <<4, 5>>, _gap |-> gap] @@ 4 :> Text(a) @@ 5 :> Text(b)
      @@ 6 :> Text(1)

\* a list of two items, an image, a canvas of two vectors and a QR code
WithList(ordered) ==
    1 :> [stack |-> <<2, 5, 6, 7>>]
      @@ 2 :> (IF ordered THEN [ol |-> <<3, 4>>, _gapSize |-> [width |-> 1]]
                          ELSE [ul |-> <<3, 4>>, _gapSize |-> [width |-> 1]])
      @@ 3 :> Marked(Text(1)) @@ 4 :> Marked(LongText)
      @@ 5 :> [image |-> "image"]
      @@ 6 :> [canvas |-> <<"line", "rect">>, _minHeight |-> 1]
      @@ 7 :> [qr |-> "qr"]

\* a table of contents (title and generated table) between two texts
WithToc(titled) ==
    1 :> [stack |-> <<2, 3, 7>>] @@ 2 :> Text(1)
      @@ 3 :> (IF titled THEN [toc |-> [title |-> 4, _table |-> 5]]
                         ELSE [toc |-> [_table |-> 5]])
      @@ 4 :> Text(1)
      @@ 5 :> [table |-> [body |-> << <<6>> >>, widths |-> <<[_calcWidth |-> 2]>>],
               _offsets |-> [offsets |-> <<0>>]]
      @@ 6 :> Text(1)
      @@ 7 :> Text(1)

\* a stack in a stack, a leaf with a page break of its own, an empty leaf
Nested(a, break) ==
    1 :> [stack |-> <<2, 4, 5, 6>>] @@ 2 :> [stack |-> <<3>>] @@ 3 :> Text(a)
      @@ 4 :> (Text(1) @@ [pageBreak |-> break]) @@ 5 :> Text(0)
      @@ 6 :> [text |-> "t", _inlines |-> <<Run(<<"m">>), Run(<<"m">>), Run(<<"m">>)>>,
               maxHeight |-> 3]

\* a node nothing recognises
Unrecognized == 1 :> [stack |-> <<2, 3>>] @@ 2 :> Text(1) @@ 3 :> [unknown |-> TRUE]

PlainDocs ==
    { ThreeLeaves(a, b, c) : a \in 1..2, b \in 1..3, c \in 1..2 }
      \cup { WithColumns(a, b, gap) : a \in 1..3, b \in 1..2, gap \in 0..1 }
      \cup { WithList(ordered) : ordered \in BOOLEAN }
      \cup { WithToc(titled) : titled \in BOOLEAN }
      \cup { Nested(a, break) : a \in 1..3, break \in {"before", "after"} }
      \cup { Unrecognized }

\* the decorations processNode wraps a node in
Decoration(margin, unbreakable, absPosition, relPosition) ==
    (IF margin THEN [_margin |-> <<1, 1, 0, 0>>] ELSE <<>>)
      @@ (IF unbreakable THEN [unbreakable |-> TRUE] ELSE <<>>)
      @@ (IF absPosition THEN [absolutePosition |-> [x |-> 0, y |-> 0]] ELSE <<>>)
      @@ (IF relPosition THEN [relativePosition |-> [x |-> 0, y |-> 1]] ELSE <<>>)

\* a decorated leaf, stack or column between plain text
Decorated(kind, decoration) ==
    IF kind = "text"
    THEN 1 :> [stack |-> <<2, 3>>] @@ 2 :> (Text(1) @@ decoration) @@ 3 :> Text(1)
    ELSE IF kind = "stack"
    THEN 1 :> [stack |-> <<2, 4>>] @@ 2 :> ([stack |-> <<3>>] @@ decoration)
           @@ 3 :> Text(1) @@ 4 :> Text(1)
    ELSE 1 :> [stack |-> <<2, 5>>] @@ 2 :> [columns |-> <<3, 4>>, _gap |-> 0]
           @@ 3 :> (Text(1) @@ decoration) @@ 4 :> Text(2) @@ 5 :> Text(1)

DecoratedDocs ==
    { Decorated(kind, Decoration(m, u, a, r)) :
        kind \in {"text", "stack", "column"},
        m \in BOOLEAN, u \in BOOLEAN, a \in BOOLEAN, r \in BOOLEAN }

TableRows == 3
TableColumns == 3

TableNode == DocStructure + 1

\* the node of the cell in row r, column c (from 0)
CellNode(r, c) == TableNode + r * TableColumns + c + 1

\* a table whose cell (r0, c0) spans colSpan columns and rowSpan rows; the
\* measurement pass has put span placeholders in the cells it covers (those
\* of its own row carry its rowSpan)
SpanTable(r0, c0, colSpan, rowSpan) ==
    LET cell(r, c) ==
            IF r = r0 /\ c = c0
            THEN Cell @@ (IF colSpan > 1 THEN [colSpan |-> colSpan] ELSE <<>>)
                      @@ (IF rowSpan > 1 THEN [rowSpan |-> rowSpan] ELSE <<>>)
            ELSE IF r = r0 /\ c > c0 /\ c < c0 + colSpan
            THEN [_span |-> TRUE] @@ (IF rowSpan > 1 THEN [rowSpan |-> rowSpan] ELSE <<>>)
            ELSE IF r > r0 /\ r < r0 + rowSpan /\ c >= c0 /\ c < c0 + colSpan
            THEN [_span |-> TRUE]
            ELSE Cell
        table == [ table |->
                     [ body |-> [r \in 1..TableRows |->
                                   [c \in 1..TableColumns |-> CellNode(r - 1, c - 1)]],
                       widths |-> [c \in 1..TableColumns |-> [_calcWidth |-> c]] ],
                   _offsets |-> [offsets |-> [c \in 1..TableColumns |-> c - 1]] ]
    IN  [n \in 1..(TableNode + TableRows * TableColumns) |->
            IF n = 1 THEN [stack |-> <<TableNode>>]
            ELSE IF n = TableNode THEN table
            ELSE cell((n - TableNode - 1) \div TableColumns,
                      (n - TableNode - 1) % TableColumns)]

TableDocs ==
    { SpanTable(r0, c0, colSpan, rowSpan) :
        r0 \in 0..1, c0 \in 0..1, colSpan \in 1..2, rowSpan \in 1..(TableRows + 1) }

Docs == PlainDocs \cup DecoratedDocs \cup TableDocs

InitialPageBreak(d) ==
    [n \in DOMAIN d |-> IF Has(d[n], "pageBreak") THEN d[n].pageBreak ELSE ""]

(***************************************************************************)
(* Specifications                                                          *)
(***************************************************************************)

RowIdle == /\ pageBreaks = <<>>
           /\ received = <<>>

LineIdle == /\ textNode = [_inlines |-> <<>>]
            /\ lines = <<>>
            /\ originalText = <<>>
            /\ linePc = "idle"
            /\ availableWidth = 0

LayoutIdle ==
    /\ doc = <<>>
    /\ pageBreak = <<>>
    /\ pageBreakCalculated = <<>>
    /\ nodeInfo = <<>>
    /\ pageBreakBeforeFct = FALSE
    /\ pc = "idle"
    /\ layout = NewContext(<<>>)
    /\ scan = [list |-> <<>>, index |-> 0]
    /\ fctCalls = <<>>
    /\ attempts = <<>>
    /\ returned = <<>>

\* layoutDocument has been called for a preprocessed and measured document,
\* with or without a pageBreakBeforeFct
Init ==
    /\ wm = WmIdle
    /\ RowIdle
    /\ LineIdle
    /\ doc \in Docs
    /\ pageBreak = InitialPageBreak(doc)
    /\ pageBreakCalculated = [n \in DOMAIN doc |-> FALSE]
    /\ nodeInfo = [n \in DOMAIN doc |-> NoNodeInfo]
    /\ pageBreakBeforeFct \in (IF doc \in TableDocs THEN {FALSE} ELSE BOOLEAN)
    /\ pc = "tryLayoutDocument"
    /\ layout = NewContext([n \in DOMAIN doc |-> <<>>])
    /\ scan = [list |-> <<>>, index |-> 0]
    /\ fctCalls = <<>>
    /\ attempts = <<>>
    /\ returned = <<>>

Next == TryLayoutDocument \/ AddPageBreaksIfNecessary \/ SomeCallback \/ SomeReturnsFalse

Spec == Init /\ [][Next]_vars

\* addWatermark calls getSize for a page size and a watermark text
InitWatermark ==
    /\ \E pageSize \in PageSizes, em \in TextEmTenths :
          /\ ScaledTarget(TargetWidth(pageSize)) > SizeOfStringWidth(em, InitialA * FixedPoint)
          /\ ScaledTarget(TargetWidth(pageSize)) < SizeOfStringWidth(em, InitialB * FixedPoint)
          /\ wm = WmInit(pageSize, em)
    /\ RowIdle
    /\ LineIdle
    /\ LayoutIdle

NextWatermark == GetSizeProbe \/ GetSizeReturn

SpecWatermark == InitWatermark /\ [][NextWatermark]_vars

\* processRow has just subscribed storePageBreakData: var pageBreaks = []
InitRow ==
    /\ wm = WmIdle
    /\ pageBreaks = <<>>
    /\ received = <<>>
    /\ LineIdle
    /\ LayoutIdle

NextRow == PageChanged

SpecRow == InitRow /\ [][NextRow]_vars

\* processLeaf is about to call buildNextLine for a measured text leaf
InitLine ==
    /\ wm = WmIdle
    /\ RowIdle
    /\ \E q \in SeqsUpTo(Inlines, MaxRuns) :
          /\ textNode = [_inlines |-> q]
          /\ originalText = ConcatTexts(q)
    /\ lines = <<>>
    /\ linePc = "build"
    /\ availableWidth \in 1..MaxAvailableWidth
    /\ LayoutIdle

NextLine == BuildNextLine

SpecLine == InitLine /\ [][NextLine]_vars

(***************************************************************************)
(* Claims                                                                  *)
(***************************************************************************)

\* The number of halvings after which an interval of InitialB - InitialA is
\* no wider than 1.
ProbeLimit == CHOOSE k \in 0..20 :
                 /\ InitialB - InitialA <= 2 ^ k
                 /\ \A j \in 0..(k - 1) : InitialB - InitialA > 2 ^ j

\* C7: for a target width strictly between the width at size 0 and the width
\* at size 1000, the binary search ends after a bounded number of probes (the
\* halvings of [0, 1000] down to a width of at most 1), and then the final
\* interval is no wider than 1 and brackets the target.
C7_SearchTerminates ==
    /\ wm.probes <= ProbeLimit
    /\ wm.pc = "returned" =>
          /\ Abs(wm.a - wm.b) <= FixedPoint
          /\ SizeOfStringWidth(wm.em, wm.a) <= ScaledTarget(wm.targetWidth)
          /\ ScaledTarget(wm.targetWidth) <= SizeOfStringWidth(wm.em, wm.b)

\* C5: pageBreaks holds exactly one descriptor per distinct prevPage that was
\* reported, with the maximum prevY and the minimum y of the notifications
\* that reported it.
C5_OneMergedBreakPerPage ==
    /\ \A p \in PrevPages :
          Cardinality({i \in 1..Len(pageBreaks) : pageBreaks[i].prevPage = p})
             = (IF \E k \in 1..Len(received) : received[k].prevPage = p THEN 1 ELSE 0)
    /\ \A i \in 1..Len(pageBreaks) :
          LET same == {k \in 1..Len(received) :
                          received[k].prevPage = pageBreaks[i].prevPage}
          IN  /\ \A k \in same : /\ pageBreaks[i].prevY >= received[k].prevY
                                 /\ pageBreaks[i].y <= received[k].y
              /\ \E k \in same : pageBreaks[i].prevY = received[k].prevY
              /\ \E k \in same : pageBreaks[i].y = received[k].y

\* Three notifications, two of them for the same previous page, the later
\* one raising prevY and lowering y of the first.
C5_Witness ==
    /\ Len(received) = 3
    /\ Len(pageBreaks) = 2
    /\ \E i \in 1..2, k \in 1..3 :
          /\ received[k].prevPage = pageBreaks[i].prevPage
          /\ received[k].prevY < pageBreaks[i].prevY
          /\ received[k].y > pageBreaks[i].y

\* C3: calling buildNextLine until it returns no line ends (every line takes
\* at least one character off the queue), the lines' texts followed by the
\* texts still queued are the original text at every moment (so the lines
\* carry exactly the original text at the end), and the last line produced,
\* and only that one, has lastLineInParagraph.
C3_TextPreserved ==
    linePc \in {"build", "done"} =>
       /\ LinesText(lines) \o ConcatTexts(textNode._inlines) = originalText
       /\ linePc = "done" => LinesText(lines) = originalText
       /\ \A i \in 1..Len(lines) :
             /\ lines[i].inlines # <<>>
             /\ \A k \in 1..Len(lines[i].inlines) : lines[i].inlines[k].text # <<>>
             /\ lines[i].lastLineInParagraph
                   <=> (i = Len(lines) /\ textNode._inlines = <<>>)
       /\ Len(lines) <= Len(originalText)
       /\ (linePc = "done" /\ lines # <<>>) => lines[Len(lines)].lastLineInParagraph

\* Three runs were laid into at least three lines, one of them ending in a
\* hard wrap, and buildNextLine has returned no line.
C3_Witness ==
    /\ linePc = "done"
    /\ Len(lines) >= 3
    /\ \E i \in 1..Len(lines) : lines[i].isHardWrap
    /\ \E i \in 1..Len(lines) : Len(lines[i].inlines) >= 2

\* C4: a noNewLine run is the last run of a returned line only if the queue
\* was empty afterwards or the run was split by a hard wrap on that line.
C4_NoNewLineNeverLast ==
    \A i \in 1..Len(lines) :
       LET l == lines[i]
       IN  (l.inlines # <<>> /\ l.inlines[Len(l.inlines)].noNewLine)
              => (l.lastLineInParagraph \/ l.isHardWrap)

\* A noNewLine run was followed on its line by a run that no longer fitted,
\* and the paragraph went on after that line.
C4_Witness ==
    \E i \in 1..Len(lines) :
       LET l == lines[i]
       IN  /\ Len(l.inlines) >= 2
           /\ l.inlines[1].noNewLine
           /\ l.inlineWidths > l.maxWidth
           /\ ~l.lastLineInParagraph

\* ---- layoutDocument ----

Visited == {layout.linearNodeList[i] : i \in 1..Len(layout.linearNodeList)}

\* the traversal of the latest attempt has returned normally
Traversed == pc \in {"addPageBreaksIfNecessary", "some", "done"}

TrueAnswers == {i \in 1..Len(fctCalls) : fctCalls[i].answer}

\* C1 (as stated): with a function that returned true at most once over the
\* whole call, layoutDocument made exactly two attempts and returned the
\* pages of the last one.
C1_ExactlyTwoAttempts ==
    (pc = "done" /\ pageBreakBeforeFct /\ Cardinality(TrueAnswers) <= 1) =>
        /\ Len(attempts) = 2
        /\ returned = attempts[2]

\* C1 (amended): with a function that returned true exactly once over the
\* whole call, layoutDocument made exactly two attempts and returned the
\* pages of the second, in which the node the function fired for has
\* pageBreak = 'before' and so starts after the first page; with a function
\* that never returned true it made exactly one attempt and returned its pages.
C1_OneAttemptPerTrueAnswer ==
    (pc = "done" /\ pageBreakBeforeFct) =>
        /\ Cardinality(TrueAnswers) = 0 =>
              /\ Len(attempts) = 1
              /\ returned = attempts[1]
        /\ Cardinality(TrueAnswers) = 1 =>
              /\ Len(attempts) = 2
              /\ returned = attempts[2]
              /\ \A i \in TrueAnswers :
                    LET n == fctCalls[i].args.node
                    IN  /\ pageBreak[n] = "before"
                        /\ fctCalls[i].attempt = 1
                        /\ n \in Visited
                        /\ layout.positions[n] # <<>>
                        /\ layout.positions[n][1].pageNumber >= 2

\* The function fired once, for a node of the first page, and the second
\* attempt produced another page list than the first.
C1_Witness ==
    /\ pc = "done"
    /\ pageBreakBeforeFct
    /\ Cardinality(TrueAnswers) = 1
    /\ Len(attempts) = 2
    /\ attempts[1] # attempts[2]
    /\ \E i \in TrueAnswers : fctCalls[i].positions[fctCalls[i].args.node][1].pageNumber = 1

\* the nodes of a list after (before) its first occurrence of n
After(list, n) ==
    LET i == CHOOSE j \in 1..Len(list) : list[j] = n
    IN  SubSeq(list, i + 1, Len(list))
Before(list, n) ==
    LET i == CHOOSE j \in 1..Len(list) : list[j] = n
    IN  SubSeq(list, 1, i - 1)

OnPage(positions, m, p) == \E k \in 1..Len(positions[m]) : positions[m][k].pageNumber = p
BeginsOnPage(positions, m, p) == positions[m] # <<>> /\ positions[m][1].pageNumber = p

\* C2 (as stated): the neighbour arguments of a call for node n, first
\* positioned on page p, are the nodes visited after n that are on page p,
\* the nodes visited after n that begin on page p + 1, and the nodes visited
\* before n that are on page p.
C2_NextPageNodesBeginThere ==
    \A i \in 1..Len(fctCalls) :
       LET cl == fctCalls[i]
           n == cl.args.node
           p == cl.positions[n][1].pageNumber
       IN  /\ cl.args.followingNodesOnPage
                 = SelectSeq(After(cl.visited, n), LAMBDA m : OnPage(cl.positions, m, p))
           /\ cl.args.nodesOnNextPage
                 = SelectSeq(After(cl.visited, n),
                             LAMBDA m : BeginsOnPage(cl.positions, m, p + 1))
           /\ cl.args.previousNodesOnPage
                 = SelectSeq(Before(cl.visited, n), LAMBDA m : OnPage(cl.positions, m, p))

\* C2 (amended): the neighbour arguments of a call for node n, first
\* positioned on page p, are, in visitation order, the nodes visited after n
\* with a position on page p, the nodes visited after n with a position on
\* page p + 1 (wherever they begin), and the nodes visited before n with a
\* position on page p; a node without positions is in none of them.
C2_NeighboursByPagesTouched ==
    \A i \in 1..Len(fctCalls) :
       LET cl == fctCalls[i]
           n == cl.args.node
           p == cl.positions[n][1].pageNumber
       IN  /\ cl.args.followingNodesOnPage
                 = SelectSeq(After(cl.visited, n), LAMBDA m : OnPage(cl.positions, m, p))
           /\ cl.args.nodesOnNextPage
                 = SelectSeq(After(cl.visited, n), LAMBDA m : OnPage(cl.positions, m, p + 1))
           /\ cl.args.previousNodesOnPage
                 = SelectSeq(Before(cl.visited, n), LAMBDA m : OnPage(cl.positions, m, p))
           /\ \A m \in Nodes :
                 cl.positions[m] = <<>> =>
                    /\ ~Includes(cl.args.followingNodesOnPage, m)
                    /\ ~Includes(cl.args.nodesOnNextPage, m)
                    /\ ~Includes(cl.args.previousNodesOnPage, m)

\* A call with all three lists filled, a later node that begins on the
\* node's page and runs on to the next, and a visited node without positions.
C2_Witness ==
    \E i \in 1..Len(fctCalls) :
       LET cl == fctCalls[i]
           n == cl.args.node
           p == cl.positions[n][1].pageNumber
       IN  /\ cl.args.followingNodesOnPage # <<>>
           /\ cl.args.previousNodesOnPage # <<>>
           /\ \E k \in 1..Len(cl.args.nodesOnNextPage) :
                 BeginsOnPage(cl.positions, cl.args.nodesOnNextPage[k], p)
           /\ \E m \in Nodes : Includes(cl.visited, m) /\ cl.positions[m] = <<>>

\* ---- processRow ----

Body == doc[TableNode].table.body
RowOf(n) == (n - TableNode - 1) \div TableColumns
ColumnOf(n) == (n - TableNode - 1) % TableColumns
ColSpanOf(n) == IF Has(doc[n], "colSpan") /\ doc[n].colSpan > 1 THEN doc[n].colSpan ELSE 1
RowSpanOf(n) == IF Has(doc[n], "rowSpan") /\ doc[n].rowSpan > 1 THEN doc[n].rowSpan ELSE 1

RECURSIVE TakenFrom(_, _)
\* the column indexes at which the loop of processRow takes a cell of a row
TakenFrom(row, i) ==
    IF i >= Len(row) THEN {} ELSE {i} \cup TakenFrom(row, i + ColSpanOf(At(row, i)))

Cells == {n \in Nodes : n > TableNode /\ ColumnOf(n) \in TakenFrom(At(Body, RowOf(n)), 0)}

SpanLeavesTable(n) == RowSpanOf(n) > 1 /\ RowOf(n) + RowSpanOf(n) - 1 >= Len(Body)

\* the first cell, in the order the rows are processed, whose span leaves the table
FirstLeaving(n) == SpanLeavesTable(n) /\ \A m \in Cells : SpanLeavesTable(m) => m >= n

\* the error is raised exactly for a span that leaves the table, before the
\* cell is laid out and after the cells before it were
C6_RaisedBeforeLayout ==
    /\ layout.error \in {"", RowSpanError}
    /\ layout.error = RowSpanError <=> \E n \in Cells : SpanLeavesTable(n)
    /\ \A n \in Cells :
          FirstLeaving(n) =>
             /\ n \notin Visited
             /\ \A i \in 1..Len(layout.calls) :
                   layout.calls[i].op = "beginColumn" => layout.calls[i].node # n
             /\ layout.calls[Len(layout.calls)].op = "throw"
             /\ layout.calls[Len(layout.calls)].node = n
             /\ \A m \in Cells : (m < n /\ ~Has(doc[m], "_span")) => m \in Visited
             /\ \A m \in Cells : m > n => m \notin Visited

\* C6: processRow raises the configuration error exactly when it comes to a
\* cell whose rowSpan > 1 ends beyond the table body and for no other cell; it
\* raises it before that cell is laid out, and the error names the column
\* index of that cell.
C6_ErrorNamesOffendingColumn ==
    (doc \in TableDocs /\ pc # "tryLayoutDocument") =>
        /\ C6_RaisedBeforeLayout
        /\ \A n \in Cells :
              FirstLeaving(n) => layout.calls[Len(layout.calls)].a = ColumnOf(n)

\* what the code does: the same, with the index the loop has advanced to
C6_ErrorNamesAdvancedIndex ==
    (doc \in TableDocs /\ pc # "tryLayoutDocument") =>
        /\ C6_RaisedBeforeLayout
        /\ \A n \in Cells :
              FirstLeaving(n) =>
                 layout.calls[Len(layout.calls)].a = ColumnOf(n) + ColSpanOf(n) - 1

RECURSIVE SumWidths(_, _, _)
SumWidths(widths, first, last) ==
    IF first > last THEN 0 ELSE At(widths, first)._calcWidth + SumWidths(widths, first + 1, last)

RECURSIVE SumGaps(_, _, _)
SumGaps(gaps, first, last) ==
    IF first > last THEN 0 ELSE At(gaps, first) + SumGaps(gaps, first + 1, last)

\* the width and the successor the claim gives a cell's column
C9_WidthAndNext(i) ==
    LET call == layout.calls[i]
        n == call.node
        r == RowOf(n)
        c == ColumnOf(n)
        k == ColSpanOf(n)
        later == {j \in (i + 1)..Len(layout.calls) :
                     layout.calls[j].op \in {"beginColumn", "throw"}}
    IN  /\ call.a = SumWidths(doc[TableNode].table.widths, c, c + k - 1)
                      + SumGaps(doc[TableNode]._offsets.offsets, c + 1, c + k - 1)
        /\ later # {} =>
              LET j == CHOOSE x \in later : \A y \in later : x <= y
              IN  layout.calls[j].node =
                     (IF c + k < TableColumns THEN CellNode(r, c + k) ELSE CellNode(r + 1, 0))

\* C9: the ending cell handed to the column of a cell at (r, c) with
\* rowSpan s > 1 inside the body is tableBody[r + s - 1][c], c the cell's own
\* column index, also when the cell has a colSpan; the column's width is the
\* widths of the columns c..c+k-1 plus the gaps of c+1..c+k-1, and the next
\* cell taken is the one at index c + k.
C9_EndingCellInOwnColumn ==
    doc \in TableDocs =>
       \A i \in 1..Len(layout.calls) :
          layout.calls[i].op = "beginColumn" =>
             LET n == layout.calls[i].node
             IN  /\ (RowSpanOf(n) > 1 /\ ~SpanLeavesTable(n)) =>
                       layout.calls[i].c = CellNode(RowOf(n) + RowSpanOf(n) - 1, ColumnOf(n))
                 /\ C9_WidthAndNext(i)

\* ---- processNode ----

CallsOf(n, op) ==
    {i \in 1..Len(layout.calls) : layout.calls[i].op = op /\ layout.calls[i].node = n}

RECURSIVE MarginSum(_, _)
\* the left and right margins added for node n by the first k calls, summed
MarginSum(n, k) ==
    IF k = 0 THEN [left |-> 0, right |-> 0]
    ELSE LET rest == MarginSum(n, k - 1)
             call == layout.calls[k]
         IN  IF call.op = "addMargin" /\ call.node = n
             THEN [left |-> rest.left + call.a, right |-> rest.right + call.b]
             ELSE rest

Opens(call) ==
    \/ call.op \in {"beginUnbreakableBlock", "beginDetachedBlock"}
    \/ call.op = "addMargin" /\ (call.a > 0 \/ call.b > 0)

Closes(call) ==
    \/ call.op \in {"commitUnbreakableBlock", "endDetachedBlock"}
    \/ call.op = "addMargin" /\ ~(call.a > 0 \/ call.b > 0)

Region(call) ==
    IF call.op \in {"beginUnbreakableBlock", "commitUnbreakableBlock"} THEN "unbreakable"
    ELSE IF call.op \in {"beginDetachedBlock", "endDetachedBlock"} THEN "detached"
    ELSE "margin"

RECURSIVE ClosedInReverse(_, _)
\* every closing call closes the region opened last and not yet closed, for
\* the same node, and no region stays open
ClosedInReverse(k, open) ==
    IF k > Len(layout.calls) THEN open = <<>>
    ELSE LET call == layout.calls[k]
         IN  IF Opens(call)
             THEN ClosedInReverse(k + 1, Append(open, [region |-> Region(call),
                                                       node |-> call.node]))
             ELSE IF Closes(call)
             THEN /\ open # <<>>
                  /\ open[Len(open)] = [region |-> Region(call), node |-> call.node]
                  /\ ClosedInReverse(k + 1, SubSeq(open, 1, Len(open) - 1))
             ELSE ClosedInReverse(k + 1, open)

\* C8: when processNode has returned normally, every region it opened for a
\* node is closed once and in reverse order of opening: as many
\* endDetachedBlock as beginDetachedBlock calls, as many
\* commitUnbreakableBlock as beginUnbreakableBlock calls, and the margin
\* added is taken away again.
C8_RegionsClosed ==
    Traversed =>
       /\ \A n \in Visited :
             /\ Cardinality(CallsOf(n, "beginDetachedBlock"))
                   = Cardinality(CallsOf(n, "endDetachedBlock"))
             /\ Cardinality(CallsOf(n, "beginUnbreakableBlock"))
                   = Cardinality(CallsOf(n, "commitUnbreakableBlock"))
             /\ MarginSum(n, Len(layout.calls)) = [left |-> 0, right |-> 0]
       /\ ClosedInReverse(1, <<>>)

Children(n) ==
    LET node == doc[n]
    IN  IF Has(node, "stack") THEN {node.stack[i] : i \in 1..Len(node.stack)}
        ELSE IF Has(node, "columns") THEN {node.columns[i] : i \in 1..Len(node.columns)}
        ELSE IF Has(node, "ul") THEN {node.ul[i] : i \in 1..Len(node.ul)}
        ELSE IF Has(node, "ol") THEN {node.ol[i] : i \in 1..Len(node.ol)}
        ELSE IF Has(node, "table")
        THEN {node.table.body[r][c] : r \in 1..Len(node.table.body),
                                       c \in 1..Len(node.table.body[1])}
        ELSE IF Has(node, "toc")
        THEN {node.toc._table} \cup (IF Has(node.toc, "title") THEN {node.toc.title} ELSE {})
        ELSE {}

RECURSIVE Descendants(_)
Descendants(n) == Children(n) \cup UNION {Descendants(m) : m \in Children(n)}

\* C10: after processNode(n) has returned, n.positions holds every position
\* of the positions of every descendant visited during the call, in emission
\* order.
C10_PositionsOfDescendants ==
    Traversed =>
       \A n \in Visited :
          /\ \A i, j \in 1..Len(layout.positions[n]) :
                i < j => layout.positions[n][i].n < layout.positions[n][j].n
          /\ \A d \in Descendants(n) \cap Visited :
                \A i \in 1..Len(layout.positions[d]) :
                   \E j \in 1..Len(layout.positions[n]) :
                      layout.positions[n][j] = layout.positions[d][i]

\* ---- the convergence loop ----

CalledOncePerNode ==
    /\ \A i, j \in 1..Len(fctCalls) :
          i < j => fctCalls[i].args.node # fctCalls[j].args.node
    /\ \A i \in 1..Len(fctCalls) :
          InitialPageBreak(doc)[fctCalls[i].args.node] # "before"
    /\ \A n \in Nodes :
          pageBreakCalculated[n] <=>
             \E i \in 1..Len(fctCalls) : fctCalls[i].args.node = n

AttemptsBounded ==
    /\ Len(attempts) <= Cardinality(TrueAnswers) + 1
    /\ Len(attempts) <= Cardinality(Nodes) + 1

\* the nodes the function may still be called for
Unasked == {n \in Nodes : pageBreak[n] # "before" /\ ~pageBreakCalculated[n]}

\* the steps the current attempt has left at most: the traversal, the entry of
\* addPageBreaksIfNecessary and one callback of some() per node to come
StepsOfAttempt ==
    IF pc = "tryLayoutDocument" THEN Cardinality(Nodes) + 3
    ELSE IF pc = "addPageBreaksIfNecessary" THEN Cardinality(Nodes) + 2
    ELSE IF pc = "some" THEN Len(scan.list) - scan.index + 1
    ELSE 0

\* a bound on the steps layoutDocument has left: every node still unasked
\* may cost one more attempt
StepsLeft == Cardinality(Unasked) * (Cardinality(Nodes) + 4) + StepsOfAttempt

\* C11: over all attempts of one layoutDocument call the function is called
\* at most once per node, never for a node the document marks
\* pageBreak = 'before' and never again for a node it was called for, whatever
\* it answers; so there is at most one attempt more than there are nodes, and
\* the loop terminates: every step of layoutDocument lowers a natural number.
C11_CalledOncePerNodeAndTerminates ==
    /\ [](CalledOncePerNode /\ AttemptsBounded /\ StepsLeft \in Nat)
    /\ [][StepsLeft' < StepsLeft]_vars

\* layoutDocument has returned after three or more attempts; a node the
\* function declined in the first attempt was laid out again in every later
\* one, and a document node marked 'before' was laid out as well.
C11_Witness ==
    /\ pc = "done"
    /\ Len(attempts) >= 3
    /\ \E i \in 1..Len(fctCalls) :
          /\ ~fctCalls[i].answer
          /\ fctCalls[i].attempt = 1
          /\ fctCalls[i].args.node \in Visited
    /\ \E n \in Visited : InitialPageBreak(doc)[n] = "before"

====
